---------------------------- MODULE Spec2Model ----------------------------
(***************************************************************************)
(* One browser session of the YouTube channel fetcher, in its three        *)
(* variants: app.py (get_all_videos), app_lite.py (get_all_videos_fast)    *)
(* and youtube_fetcher_app.py (get_all_channel_content).                   *)
(*                                                                         *)
(* A fetch is modelled call by call: every action is one request to the    *)
(* YouTube Data API together with all the code that runs between that      *)
(* response and the next request (or the return to main and main's update  *)
(* of st.session_state).  The API is the environment: every call may       *)
(* raise, return nothing, or return data.                                  *)
(*                                                                         *)
(* Strings the code inspects (the channel reference, URL patterns) are     *)
(* sequences of one-character strings, so startswith, len, "in" and        *)
(* re.search are computed the way Python computes them.                    *)
(***************************************************************************)
EXTENDS Integers, Sequences, FiniteSets, TLC

(***************************************************************************)
(* Bounds of the model.                                                    *)
(***************************************************************************)
\* longest uploads listing of a channel
MaxUploads == 3
\* longest playlist listing of a channel
MaxPlaylists == 1
\* page size of the listings: maxResults=50 in the code, scaled down so that
\* a listing of MaxUploads items spans more than one page
MaxResults == 2
\* largest hours, minutes and seconds component of the durations tried
MaxHours == 1
MaxMinutes == 2
MaxSeconds == 61

(***************************************************************************)
(* Strings.                                                                *)
(***************************************************************************)
Lower == {"a","b","c","d","e","f","g","h","i","j","k","l","m",
          "n","o","p","q","r","s","t","u","v","w","x","y","z"}
Upper == {"A","B","C","D","E","F","G","H","I","J","K","L","M",
          "N","O","P","Q","R","S","T","U","V","W","X","Y","Z"}
Digit == {"0","1","2","3","4","5","6","7","8","9"}
\* the character class [a-zA-Z0-9_-] of the four URL patterns
IdChars == Lower \cup Upper \cup Digit \cup {"_", "-"}

\* s.startswith(p)
StartsWith(s, p) == Len(s) >= Len(p) /\ SubSeq(s, 1, Len(p)) = p

\* p occurs in s at position i
OccursAt(s, p, i) == i + Len(p) - 1 <= Len(s) /\ SubSeq(s, i, i + Len(p) - 1) = p

\* p in s
Contains(s, p) == \E i \in 1..(Len(s) + 1) : OccursAt(s, p, i)

Min(S) == CHOOSE x \in S : \A y \in S : x <= y

\* last index of the run of IdChars of s that starts at i (i itself is one)
RECURSIVE RunEnd(_, _)
RunEnd(s, i) == IF i < Len(s) /\ s[i + 1] \in IdChars THEN RunEnd(s, i + 1) ELSE i

\* the positions where  <prefix>([a-zA-Z0-9_-]+)  matches in url
MatchStarts(prefix, url) ==
    {i \in 1..Len(url) : /\ OccursAt(url, prefix, i)
                         /\ i + Len(prefix) <= Len(url)
                         /\ url[i + Len(prefix)] \in IdChars}

\* re.search(prefix + '([a-zA-Z0-9_-]+)', url): leftmost match, greedy group;
\* <<>> stands for "no match" (a match's group is never empty)
ReSearch(prefix, url) ==
    IF MatchStarts(prefix, url) = {} THEN <<>>
    ELSE LET g == Min(MatchStarts(prefix, url)) + Len(prefix)
         IN  SubSeq(url, g, RunEnd(url, g))

Domain == <<"y","o","u","t","u","b","e",".","c","o","m">>
ChannelSlash == <<"c","h","a","n","n","e","l","/">>

\* the literal parts of the four patterns, in the order of the list
PatChannel == Domain \o <<"/">> \o ChannelSlash
PatCustom == Domain \o <<"/","c","/">>
PatUser == Domain \o <<"/","u","s","e","r","/">>
PatHandle == Domain \o <<"/","@">>
patterns == <<PatChannel, PatCustom, PatUser, PatHandle>>

\* for pattern in patterns: match = re.search(pattern, url); if match: return ...
RECURSIVE ExtractFrom(_, _)
ExtractFrom(url, k) ==
    IF k > Len(patterns) THEN [id |-> <<>>, pattern |-> <<>>]
    ELSE IF ReSearch(patterns[k], url) # <<>>
         THEN [id |-> ReSearch(patterns[k], url), pattern |-> patterns[k]]
         ELSE ExtractFrom(url, k + 1)

\* the loop run over the patterns from the last to the first
RECURSIVE ExtractBackFrom(_, _)
ExtractBackFrom(url, k) ==
    IF k < 1 THEN [id |-> <<>>, pattern |-> <<>>]
    ELSE IF ReSearch(patterns[k], url) # <<>>
         THEN [id |-> ReSearch(patterns[k], url), pattern |-> patterns[k]]
         ELSE ExtractBackFrom(url, k - 1)

extract_channel_id_from_url_reversed(url) == ExtractBackFrom(url, Len(patterns))

\* returns (match.group(1), pattern), or (None, None) as two empty strings
extract_channel_id_from_url(url) == ExtractFrom(url, 1)

\* the length a canonical channel id has
CanonicalLen == 24

\* the test made only for references that are no URL
LooksLikeChannelId_UrlFirst(channel_input) ==
    /\ StartsWith(channel_input, <<"U","C">>)
    /\ Len(channel_input) = CanonicalLen
    /\ ~Contains(channel_input, Domain)

\* channel_input.startswith('UC') and len(channel_input) == 24
LooksLikeChannelId(channel_input) ==
    StartsWith(channel_input, <<"U","C">>) /\ Len(channel_input) = CanonicalLen

\* f'@{username}' if not username.startswith('@') else username
HandleOf(name) == IF StartsWith(name, <<"@">>) THEN name ELSE <<"@">> \o name

(***************************************************************************)
(* Channel references a user may type.                                     *)
(***************************************************************************)
Name == <<"n","a","m","e">>
Scheme == <<"h","t","t","p","s",":","/","/">>
\* UCuAXFkgsw1L7xaCfnd5JJOw
RefCanonical ==
    <<"U","C","u","A","X","F","k","g","s","w","1","L","7","x","a","C","f","n","d","5","J","J","O","w">>
\* UCyoutube.com/@abcdefghi : 24 characters, starts with UC, holds the domain
RefCanonicalUrl == <<"U","C">> \o PatHandle \o <<"a","b","c","d","e","f","g","h","i">>
\* UCabc : starts with UC, too short
RefShortUC == <<"U","C","a","b","c">>
\* https://youtube.com/channel/UCuAXFkgsw1L7xaCfnd5JJOw
RefChannelUrl == Scheme \o PatChannel \o RefCanonical
\* youtube.com/channel/UCab : 24 characters, does not start with UC
RefChannelUrl24 == PatChannel \o <<"U","C","a","b">>
\* youtube.com/c/name
RefCustomUrl == PatCustom \o Name
\* youtube.com/user/name
RefUserUrl == PatUser \o Name
\* https://www.youtube.com/@name
RefHandleUrl == Scheme \o <<"w","w","w",".">> \o PatHandle \o Name
\* youtube.com/@a?u=youtube.com/user/b : two patterns match, /@ leftmost
RefTwoPatterns == PatHandle \o <<"a","?","u","=">> \o PatUser \o <<"b">>
\* youtube.com/channel/?x=youtube.com/c/d : /channel/ with no id after it
RefEmptySegment == PatChannel \o <<"?","x","=">> \o PatCustom \o <<"d">>
\* youtube.com/c/x/youtube.com/channel/UCz : two patterns match, /c/ leftmost
RefChannelLater == PatCustom \o <<"x","/">> \o PatChannel \o <<"U","C","z">>
\* youtube.com/watch : the domain, none of the four patterns
RefUnmatchedUrl == Domain \o <<"/","w","a","t","c","h">>
\* @name
RefHandle == <<"@">> \o Name
\* youtube.com/channel/ : the start of a pattern, no id after it
RefNoId == PatChannel

AllRefs == {RefCanonical, RefCanonicalUrl, RefShortUC, RefChannelUrl, RefChannelUrl24,
            RefCustomUrl, RefUserUrl, RefHandleUrl, RefTwoPatterns, RefEmptySegment,
            RefChannelLater, RefUnmatchedUrl, Name, RefHandle, RefNoId}


(***************************************************************************)
(* The YouTube Data API as seen by one session: the channel's uploads      *)
(* listing and playlist listing.  publishedAt is a point in time; DayLen   *)
(* consecutive points fall on one calendar day.                            *)
(***************************************************************************)
DayLen == 2

\* snippet entries of playlistItems().list: video 1 published at time 0,
\* video 2 later the same day, and an entry of video 1 again, a day later
UploadEntries == {[videoId |-> 1, publishedAt |-> 0],
                  [videoId |-> 2, publishedAt |-> 1],
                  [videoId |-> 1, publishedAt |-> 2]}
\* entries of playlists().list: the auto-generated 'Uploads' and one of the user's
PlaylistEntries == {[id |-> 3, publishedAt |-> 1, title |-> "Uploads"],
                    [id |-> 3, publishedAt |-> 1, title |-> "Mix"]}

RECURSIVE SeqsUpTo(_, _)
SeqsUpTo(S, n) ==
    IF n = 0 THEN {<<>>}
    ELSE SeqsUpTo(S, n - 1) \cup
         {Append(s, x) : s \in {t \in SeqsUpTo(S, n - 1) : Len(t) = n - 1}, x \in S}

Decimal == <<"0", "1", "2", "3", "4", "5", "6", "7", "8", "9">>

\* int(channel_info['video_count'])
IntOf(s) == CHOOSE n \in 0..9 : Decimal[n + 1] = s

\* statistics.videoCount as the API reports it for a channel with this uploads
\* listing: the number of its videos as a decimal string, or nothing when the
\* statistic is hidden (then .get('videoCount', 'N/A') gives 'N/A')
VideoCounts(listing) == {"N/A", Decimal[Len(listing) + 1]}

\* pageToken=None is 0; any other token names the index the next page starts at
NoToken == 0
PageStart(token) == IF token = NoToken THEN 1 ELSE token

\* response['items'] of a listing request with maxResults=MaxResults
PageOf(listing, token) ==
    SubSeq(listing, PageStart(token),
           IF PageStart(token) + MaxResults - 1 <= Len(listing)
           THEN PageStart(token) + MaxResults - 1 ELSE Len(listing))

\* response.get('nextPageToken')
NextPageToken(listing, token) ==
    IF PageStart(token) + MaxResults <= Len(listing)
    THEN PageStart(token) + MaxResults ELSE NoToken

\* s without its k-th element (k = 0: s itself)
Without(s, k) == IF k = 0 THEN s ELSE SubSeq(s, 1, k - 1) \o SubSeq(s, k + 1, Len(s))

\* the responses videos().list may give for the ids of a page: one entry per
\* id in request order, or that with one id left out (a video that is gone)
DetailResponses(video_ids) ==
    {[k \in 1..Len(Without(video_ids, d)) |-> [id |-> Without(video_ids, d)[k]]] :
        d \in 0..Len(video_ids)}

\* the channel id a successful lookup returns: the API's own, told apart by strategy
ChannelIdFrom(strategy, name) == <<strategy>> \o name

(***************************************************************************)
(* Values.                                                                 *)
(***************************************************************************)
\* channel_id = None (an id is never the empty string)
NoChannel == <<>>
NullInfo == [title |-> <<>>, video_count |-> "N/A", uploads_playlist_id |-> <<>>]
\* what a fetch returns when it fails: return None, None
ReturnNone == [ok |-> FALSE, data |-> <<>>, info |-> NullInfo]
\* st.session_state.<key> = None
Unset == [some |-> FALSE, data |-> <<>>, info |-> NullInfo]

Variants == {"app", "lite", "fetcher"}

VARIABLES
    variant,              \* which of the three scripts the session runs
    uploads,              \* the channel's uploads listing (API side)
    playlists,            \* the channel's playlist listing (API side)
    session_state,        \* st.session_state: the last-fetch data and channel_info
    pc,                   \* the API call the running fetch is about to make, or "idle"
    fetches,              \* fetch clicks so far
    channel_input,        \* the reference of the running fetch
    username,             \* argument of get_channel_id_from_username
    channel_id,
    channel_info,
    all_videos,           \* videos / all_videos: items accumulated from the uploads
    all_playlists,
    next_page_token,
    response,             \* the listing response whose details are being fetched
    calls,                \* API requests of the current (or last) fetch, in order
    errors,               \* st.error calls of the current (or last) fetch
    progress,             \* progress reports of the current (or last) fetch
    ret,                  \* what the last fetch returned to main
    live_details,         \* liveStreamingDetails of the details entry being joined
    duration_iso,         \* contentDetails.duration of that entry
    video_data,           \* the Type and Duration built from the two
    num,                  \* argument of format_number
    formatted             \* what format_number gave for it

world == <<variant, uploads, playlists>>
locals == <<channel_input, username, channel_id, channel_info, all_videos,
            all_playlists, next_page_token, response>>
\* the state of a fetch and of main
session == <<uploads, playlists, session_state, pc, fetches, channel_input,
             username, channel_id, channel_info, all_videos, all_playlists,
             next_page_token, response, calls, errors, progress, ret>>
\* one details entry and one count on their way into an item
item_vars == <<live_details, duration_iso, video_data>>
number_vars == <<num, formatted>>
vars == <<variant, uploads, playlists, session_state, pc, fetches, channel_input,
          username, channel_id, channel_info, all_videos, all_playlists,
          next_page_token, response, calls, errors, progress, ret,
          live_details, duration_iso, video_data, num, formatted>>

NoResponse == [items |-> <<>>, nextPageToken |-> NoToken]

\* one request and how the API answered it: out is "raise", "empty" (no items)
\* or "found"; count is the videoCount a found channel reports ("" otherwise);
\* got is the ids of the entries of a details response, in its order
Call(api, name, token, ids, out, count) ==
    [api |-> api, name |-> name, token |-> token, ids |-> ids, out |-> out,
     count |-> count, got |-> <<>>]

\* the details response as the call log keeps it
Got(call, details) == [call EXCEPT !.got = [k \in 1..Len(details) |-> details[k].id]]

Answer(ok) == IF ok THEN "found" ELSE "raise"


(***************************************************************************)
(* Items and the final sort.                                               *)
(***************************************************************************)
\* video_data: the snippet entry of the uploads page joined with the entry of
\* the details response at the same position.  stats_of names the video whose
\* duration and statistics the item carries.  pos is the item's row in the
\* list handed to the sort (the DataFrame index; 0 until then).
VideoItem(entry, detail) ==
    [content_id |-> entry.videoId, published_at |-> entry.publishedAt,
     stats_of |-> detail.id, type |-> "video", pos |-> 0]

\* playlist_data: Views, Likes, Comments are the constant 0
PlaylistItem(playlist) ==
    [content_id |-> playlist.id, published_at |-> playlist.publishedAt,
     stats_of |-> 0, type |-> "playlist", pos |-> 0]

\* the join with the details taken from the end of the response
Zip_Reversed(items, details) ==
    [k \in 1..(IF Len(items) <= Len(details) THEN Len(items) ELSE Len(details)) |->
        VideoItem(items[k], details[Len(details) + 1 - k])]

\* zip(response['items'], details)
Zip(items, details) ==
    [k \in 1..(IF Len(items) <= Len(details) THEN Len(items) ELSE Len(details)) |->
        VideoItem(items[k], details[k])]

Rows(content) == [k \in 1..Len(content) |-> [content[k] EXCEPT !.pos = k]]

\* calendar day of a timestamp: fromisoformat(...).strftime('%Y-%m-%d')
DayOf(t) == t \div DayLen

\* the key of the final sort: app.py compares the publishedAt strings,
\* the other two the 'Published' column, which holds the day only
SortKey(v, item) == IF v = "app" THEN item.published_at ELSE DayOf(item.published_at)

\* the rows that may come first in a descending sort of the rows in S
Greatest(v, rows, S) == {i \in S : \A j \in S : SortKey(v, rows[j]) <= SortKey(v, rows[i])}

\* list.sort(key=..., reverse=True) is stable: among the greatest, the first
\* in the list.  DataFrame.sort_values(..., ascending=False) runs with its
\* default kind='quicksort', which is not stable: any of the greatest.
NextRows(v, rows, S) ==
    IF v = "app" THEN {Min(Greatest(v, rows, S))} ELSE Greatest(v, rows, S)

RECURSIVE SortFrom(_, _, _)
SortFrom(v, rows, S) ==
    IF S = {} THEN {<<>>}
    ELSE UNION {{<<rows[i]>> \o rest : rest \in SortFrom(v, rows, S \ {i})} :
                    i \in NextRows(v, rows, S)}

\* every order the sort of the variant may leave the rows in
SortOutcomes(v, content) == SortFrom(v, Rows(content), 1..Len(content))

(***************************************************************************)
(* Resolution of the reference (first lines of get_all_videos,             *)
(* get_all_videos_fast, get_all_channel_content).                          *)
(***************************************************************************)
\* the resolution with a URL of no known form treated as a name
Route_FallsBack(ref) ==
    IF LooksLikeChannelId(ref) THEN [to |-> "id", arg |-> ref]
    ELSE IF Contains(ref, Domain)
    THEN LET e == extract_channel_id_from_url(ref)
         IN  IF e.id # <<>>
             THEN IF Contains(e.pattern, ChannelSlash)
                  THEN [to |-> "id", arg |-> e.id]
                  ELSE [to |-> "lookup", arg |-> e.id]
             ELSE [to |-> "lookup", arg |-> ref]
    ELSE [to |-> "lookup", arg |-> ref]

\* to = "id": the channel id is arg; "lookup": arg goes to
\* get_channel_id_from_username; "none": channel_id stays None
Route(ref) ==
    IF LooksLikeChannelId(ref) THEN [to |-> "id", arg |-> ref]
    ELSE IF Contains(ref, Domain)
    THEN LET e == extract_channel_id_from_url(ref)
         IN  IF e.id # <<>>
             THEN IF Contains(e.pattern, ChannelSlash)
                  THEN [to |-> "id", arg |-> e.id]
                  ELSE [to |-> "lookup", arg |-> e.id]
             ELSE [to |-> "none", arg |-> <<>>]
    ELSE [to |-> "lookup", arg |-> ref]

(***************************************************************************)
(* main: what it does with the pair a fetch returns.                       *)
(***************************************************************************)
\* app.py: if videos and channel_info;  the others: if df is not None and channel_info
Stores(v, r) == IF v = "app" THEN r.ok /\ r.data # <<>> ELSE r.ok

\* the fetch returns r to main, which updates st.session_state
ReturnToMain(r, calls2, errors2, progress2) ==
    /\ ret' = r
    /\ session_state' = IF Stores(variant, r)
                        THEN [some |-> TRUE, data |-> r.data, info |-> r.info]
                        ELSE session_state
    /\ pc' = "idle"
    /\ username' = <<>>
    /\ channel_id' = NoChannel
    /\ channel_info' = NullInfo
    /\ all_videos' = <<>>
    /\ all_playlists' = <<>>
    /\ next_page_token' = NoToken
    /\ response' = NoResponse
    /\ calls' = calls2
    /\ errors' = errors2
    /\ progress' = progress2
    /\ UNCHANGED <<world, fetches, channel_input, item_vars, number_vars>>

\* the fetch goes on to the API call named by pc2
Goto(pc2, calls2, errors2, progress2) ==
    /\ pc' = pc2
    /\ calls' = calls2
    /\ errors' = errors2
    /\ progress' = progress2
    /\ UNCHANGED <<world, fetches, session_state, ret, channel_input, item_vars, number_vars>>


(***************************************************************************)
(* The fetch, call by call.                                                *)
(***************************************************************************)
Outcomes == {"raise", "empty", "found"}

\* main: the button is pressed with a non-empty reference; the fetch starts
\* and runs to its first API call (or returns, when no call is made at all)
FetchButton(refs) ==
    /\ pc = "idle"
    /\ fetches' = fetches + 1
    /\ \E ref \in refs :
         LET r == Route(ref)
         IN  /\ channel_input' = ref
             /\ username' = IF r.to = "lookup" THEN r.arg ELSE <<>>
             /\ channel_id' = IF r.to = "id" THEN r.arg ELSE NoChannel
             /\ pc' = CASE r.to = "id" -> "channels.id"
                        [] r.to = "lookup" -> "channels.forUsername"
                        [] r.to = "none" -> "idle"
             \* if not channel_id: st.error(...); return None, None
             /\ errors' = IF r.to = "none" THEN 1 ELSE 0
    /\ ret' = ReturnNone
    /\ calls' = <<>>
    /\ progress' = <<>>
    /\ channel_info' = NullInfo
    /\ all_videos' = <<>>
    /\ all_playlists' = <<>>
    /\ next_page_token' = NoToken
    /\ response' = NoResponse
    /\ UNCHANGED <<world, session_state, item_vars, number_vars>>

\* the first method without its return: the id is kept, the loop goes on
ChannelsListForUsername_NoReturn ==
    /\ pc = "channels.forUsername"
    /\ \E out \in Outcomes :
         LET c == Append(calls, Call("channels.forUsername", username, NoToken, <<>>,
                                     out, ""))
         IN  /\ channel_id' = IF out = "found"
                              THEN ChannelIdFrom("forUsername:", username) ELSE NoChannel
             /\ Goto("channels.forHandle", c, errors, progress)
    /\ UNCHANGED <<username, channel_info, all_videos, all_playlists,
                   next_page_token, response>>

\* get_channel_id_from_username, first method: channels().list(forUsername=username)
ChannelsListForUsername ==
    /\ pc = "channels.forUsername"
    /\ \E out \in Outcomes :
         LET c == Append(calls, Call("channels.forUsername", username, NoToken, <<>>,
                                     out, ""))
         IN  /\ channel_id' = IF out = "found"
                              THEN ChannelIdFrom("forUsername:", username) ELSE NoChannel
             /\ Goto(IF out = "found" THEN "channels.id" ELSE "channels.forHandle",
                     c, errors, progress)
    /\ UNCHANGED <<username, channel_info, all_videos, all_playlists,
                   next_page_token, response>>

\* the second method without its try: an exception leaves the chain and
\* reaches the except of the fetch, which reports it once
ChannelsListForHandle_Escapes ==
    /\ pc = "channels.forHandle"
    /\ \E out \in Outcomes :
         LET c == Append(calls, Call("channels.forHandle", HandleOf(username), NoToken,
                                     <<>>, out, ""))
         IN  CASE out = "found" ->
                    /\ channel_id' = ChannelIdFrom("forHandle:", HandleOf(username))
                    /\ Goto("channels.id", c, errors, progress)
                    /\ UNCHANGED <<username, channel_info, all_videos, all_playlists,
                                   next_page_token, response>>
               [] out = "empty" ->
                    /\ channel_id' = NoChannel
                    /\ Goto("search", c, errors, progress)
                    /\ UNCHANGED <<username, channel_info, all_videos, all_playlists,
                                   next_page_token, response>>
               [] out = "raise" -> ReturnToMain(ReturnNone, c, errors + 1, progress)

\* second method: channels().list(forHandle='@' + username)
ChannelsListForHandle ==
    /\ pc = "channels.forHandle"
    /\ \E out \in Outcomes :
         LET c == Append(calls, Call("channels.forHandle", HandleOf(username), NoToken,
                                     <<>>, out, ""))
         IN  /\ channel_id' = IF out = "found"
                              THEN ChannelIdFrom("forHandle:", HandleOf(username))
                              ELSE NoChannel
             /\ Goto(IF out = "found" THEN "channels.id" ELSE "search",
                     c, errors, progress)
    /\ UNCHANGED <<username, channel_info, all_videos, all_playlists,
                   next_page_token, response>>

\* the fallback whose caller does not test the id it gets: a search that finds
\* nothing is followed by the channel-info request
SearchList_NoTest ==
    /\ pc = "search"
    /\ \E out \in Outcomes :
         LET c == Append(calls, Call("search", username, NoToken, <<>>, out, ""))
         IN  /\ channel_id' = IF out = "found"
                              THEN ChannelIdFrom("search:", username) ELSE NoChannel
             /\ Goto("channels.id", c, IF out = "raise" THEN errors + 1 ELSE errors,
                     progress)
             /\ UNCHANGED <<username, channel_info, all_videos, all_playlists,
                            next_page_token, response>>

\* the fallback: search().list(q=username, type='channel', maxResults=1)
SearchList ==
    /\ pc = "search"
    /\ \E out \in Outcomes :
         LET c == Append(calls, Call("search", username, NoToken, <<>>, out, ""))
         IN  CASE out = "found" ->
                    /\ channel_id' = ChannelIdFrom("search:", username)
                    /\ Goto("channels.id", c, errors, progress)
                    /\ UNCHANGED <<username, channel_info, all_videos, all_playlists,
                                   next_page_token, response>>
               \* return None; the caller: st.error("Could not find channel...")
               [] out = "empty" -> ReturnToMain(ReturnNone, c, errors + 1, progress)
               \* except Exception: st.error(...); return None; then the caller's
               [] out = "raise" -> ReturnToMain(ReturnNone, c, errors + 2, progress)

\* get_channel_info: channels().list(part=..., id=channel_id)
ChannelsListById ==
    /\ pc = "channels.id"
    /\ \E out \in Outcomes, vc \in VideoCounts(uploads) :
         LET c == Append(calls, Call("channels.id", channel_id, NoToken, <<>>, out,
                                     IF out = "found" THEN vc ELSE ""))
         IN  CASE out = "found" ->
                    /\ channel_info' = [title |-> channel_id, video_count |-> vc,
                                        uploads_playlist_id |-> <<"UU">> \o channel_id]
                    /\ all_videos' = <<>>
                    /\ next_page_token' = NoToken
                    /\ Goto("playlistItems", c, errors, progress)
                    /\ UNCHANGED <<username, channel_id, all_playlists, response>>
               \* if not response['items']: return None; the caller reports
               [] out = "empty" -> ReturnToMain(ReturnNone, c, errors + 1, progress)
               \* except: st.error(...); return None; the caller reports too
               [] out = "raise" -> ReturnToMain(ReturnNone, c, errors + 2, progress)

\* get_playlists entered with the token get_uploaded_videos left behind
ToPlaylists_StaleToken(videos2, calls2, errors2, progress2) ==
    /\ all_videos' = videos2
    /\ all_playlists' = <<>>
    /\ response' = NoResponse
    /\ Goto("playlists", calls2, errors2, progress2)
    /\ UNCHANGED <<username, channel_id, channel_info, next_page_token>>

\* get_all_channel_content after get_uploaded_videos returned: on to get_playlists
ToPlaylists(videos2, calls2, errors2, progress2) ==
    /\ all_videos' = videos2
    /\ all_playlists' = <<>>
    /\ next_page_token' = NoToken
    /\ response' = NoResponse
    /\ Goto("playlists", calls2, errors2, progress2)
    /\ UNCHANGED <<username, channel_id, channel_info>>

\* the while loop is left: sort and return (fetcher: return all_videos)
EndOfUploads(videos2, calls2, errors2, progress2) ==
    CASE variant = "app" ->
           \E sorted \in SortOutcomes("app", videos2) :
               ReturnToMain([ok |-> TRUE, data |-> sorted, info |-> channel_info],
                            calls2, errors2, progress2)
      [] variant = "lite" ->
           \* pd.DataFrame([])['Published'] raises KeyError: except Exception
           IF videos2 = <<>>
           THEN ReturnToMain(ReturnNone, calls2, errors2 + 1, progress2)
           ELSE \E sorted \in SortOutcomes("lite", videos2) :
                    ReturnToMain([ok |-> TRUE, data |-> sorted, info |-> channel_info],
                                 calls2, errors2, progress2)
      [] variant = "fetcher" -> ToPlaylists(videos2, calls2, errors2, progress2)

\* the rest of the loop body, reporting the items of the page alone
AfterPage_PageCount(resp, videos2, calls2, errors2) ==
    LET progress2 == Append(progress, [what |-> "videos",
                                       n |-> Len(videos2) - Len(all_videos)])
    IN  IF /\ variant = "app"
           /\ channel_info.video_count # "N/A"
           /\ IntOf(channel_info.video_count) = 0
        THEN ReturnToMain(ReturnNone, calls2, errors2 + 1, progress2)
        ELSE IF resp.nextPageToken # NoToken
        THEN /\ all_videos' = videos2
             /\ next_page_token' = resp.nextPageToken
             /\ response' = NoResponse
             /\ Goto("playlistItems", calls2, errors2, progress2)
             /\ UNCHANGED <<username, channel_id, channel_info, all_playlists>>
        ELSE EndOfUploads(videos2, calls2, errors2, progress2)

\* the rest of the loop body once the page's items are appended
AfterPage(resp, videos2, calls2, errors2) ==
    LET progress2 == Append(progress, [what |-> "videos", n |-> Len(videos2)])
    IN  \* videos_fetched / int(channel_info['video_count']): ZeroDivisionError
        IF /\ variant = "app"
           /\ channel_info.video_count # "N/A"
           /\ IntOf(channel_info.video_count) = 0
        THEN ReturnToMain(ReturnNone, calls2, errors2 + 1, progress2)
        ELSE IF resp.nextPageToken # NoToken
        THEN /\ all_videos' = videos2
             /\ next_page_token' = resp.nextPageToken
             /\ response' = NoResponse
             /\ Goto("playlistItems", calls2, errors2, progress2)
             /\ UNCHANGED <<username, channel_id, channel_info, all_playlists>>
        ELSE EndOfUploads(videos2, calls2, errors2, progress2)

\* the page request made once more after it failed for the first time
PlaylistItemsList_Retry ==
    /\ pc = "playlistItems"
    /\ \E ok \in BOOLEAN :
         LET c == Append(calls, Call("playlistItems", channel_info.uploads_playlist_id,
                                     next_page_token, <<>>, Answer(ok), ""))
             resp == [items |-> PageOf(uploads, next_page_token),
                      nextPageToken |-> NextPageToken(uploads, next_page_token)]
             retried == calls # <<>> /\ calls[Len(calls)].api = "playlistItems"
                                     /\ calls[Len(calls)].out = "raise"
         IN  IF ~ok /\ ~retried
             THEN /\ Goto("playlistItems", c, errors, progress)
                  /\ UNCHANGED <<username, channel_id, channel_info, all_videos,
                                 all_playlists, next_page_token, response>>
             ELSE IF ~ok
             THEN IF variant = "fetcher"
                  THEN ToPlaylists(<<>>, c, errors + 1, progress)
                  ELSE ReturnToMain(ReturnNone, c, errors + 1, progress)
             ELSE IF variant = "app" /\ resp.items = <<>>
                  THEN AfterPage(resp, all_videos, c, errors)
                  ELSE /\ response' = resp
                       /\ Goto("videos", c, errors, progress)
                       /\ UNCHANGED <<username, channel_id, channel_info, all_videos,
                                      all_playlists, next_page_token>>

\* playlistItems().list(playlistId=uploads_playlist_id, maxResults=50, pageToken=...)
PlaylistItemsList ==
    /\ pc = "playlistItems"
    /\ \E ok \in BOOLEAN :
         LET c == Append(calls, Call("playlistItems", channel_info.uploads_playlist_id,
                                     next_page_token, <<>>, Answer(ok), ""))
             resp == [items |-> PageOf(uploads, next_page_token),
                      nextPageToken |-> NextPageToken(uploads, next_page_token)]
         IN  IF ~ok
             THEN \* fetcher: get_uploaded_videos reports and returns []
                  IF variant = "fetcher"
                  THEN ToPlaylists(<<>>, c, errors + 1, progress)
                  ELSE ReturnToMain(ReturnNone, c, errors + 1, progress)
             ELSE \* app.py: get_video_details makes no request for no ids
                  IF variant = "app" /\ resp.items = <<>>
                  THEN AfterPage(resp, all_videos, c, errors)
                  ELSE /\ response' = resp
                       /\ Goto("videos", c, errors, progress)
                       /\ UNCHANGED <<username, channel_id, channel_info, all_videos,
                                      all_playlists, next_page_token>>

\* videos().list(part=..., id=','.join(video_ids)) and the join of the page
VideosList ==
    /\ pc = "videos"
    /\ LET video_ids == [k \in 1..Len(response.items) |-> response.items[k].videoId]
       IN  \E ok \in BOOLEAN :
             LET q == Call("videos", <<>>, NoToken, video_ids, Answer(ok), "")
                 c == Append(calls, q)
             IN  IF ~ok
                 THEN CASE variant = "app" ->
                             \* get_video_details reports and returns []
                             AfterPage(response, all_videos, c, errors + 1)
                        [] variant = "lite" ->
                             ReturnToMain(ReturnNone, c, errors + 1, progress)
                        [] variant = "fetcher" ->
                             ToPlaylists(<<>>, c, errors + 1, progress)
                 ELSE \E details \in DetailResponses(video_ids) :
                          AfterPage(response, all_videos \o Zip(response.items, details),
                                    Append(calls, Got(q, details)), errors)

\* no title skipped
SkippedTitles_None == {}

\* playlist titles get_playlists skips
SkippedTitles == {"Uploads", "Liked videos", "Favorites"}

\* the playlist_data of the page's playlists, skipped titles left out
RECURSIVE PlaylistItems(_)
PlaylistItems(page) ==
    IF page = <<>> THEN <<>>
    ELSE (IF Head(page).title \in SkippedTitles THEN <<>>
          ELSE <<PlaylistItem(Head(page))>>) \o PlaylistItems(Tail(page))

\* get_all_channel_content after get_playlists returned: DataFrame, sort, return
Finish(content, calls2, errors2, progress2) ==
    \E sorted \in SortOutcomes("fetcher", content) :
        ReturnToMain([ok |-> TRUE, data |-> sorted, info |-> channel_info],
                     calls2, errors2, progress2)

\* get_playlists: playlists().list(channelId=channel_id, maxResults=50, pageToken=...)
PlaylistsList ==
    /\ pc = "playlists"
    /\ \E ok \in BOOLEAN :
         LET c == Append(calls, Call("playlists", channel_id, next_page_token, <<>>,
                                     Answer(ok), ""))
             token == NextPageToken(playlists, next_page_token)
             playlists2 == all_playlists \o PlaylistItems(PageOf(playlists, next_page_token))
             progress2 == Append(progress, [what |-> "playlists", n |-> Len(playlists2)])
         IN  IF ~ok
             THEN \* get_playlists reports and returns []
                  Finish(all_videos, c, errors + 1, progress)
             ELSE IF token # NoToken
             THEN /\ all_playlists' = playlists2
                  /\ next_page_token' = token
                  /\ Goto("playlists", c, errors, progress2)
                  /\ UNCHANGED <<username, channel_id, channel_info, all_videos, response>>
             ELSE Finish(all_videos \o playlists2, c, errors, progress2)

(***************************************************************************)
(* One item: classification and the rendering of its duration.             *)
(***************************************************************************)
\* index of the last character of the run of digits of s that starts at i
\* (i - 1 when s has no digit at i)
RECURSIVE DigitsEnd(_, _)
DigitsEnd(s, i) == IF i <= Len(s) /\ s[i] \in Digit THEN DigitsEnd(s, i + 1) ELSE i - 1

\* (?:(\d+)X)? tried at position i: the digits of the group (none: no match
\* of the group) and the position the match goes on from
OptionalGroup(s, i, letter) ==
    LET e == DigitsEnd(s, i)
    IN  IF e >= i /\ e < Len(s) /\ s[e + 1] = letter
        THEN [digits |-> SubSeq(s, i, e), next |-> e + 2]
        ELSE [digits |-> <<>>, next |-> i]

\* re.match(r'PT(?:(\d+)H)?(?:(\d+)M)?(?:(\d+)S)?', duration) and match.groups()
DurationMatch(duration) ==
    IF ~StartsWith(duration, <<"P","T">>)
    THEN [matched |-> FALSE, hours |-> <<>>, minutes |-> <<>>, seconds |-> <<>>]
    ELSE LET h == OptionalGroup(duration, 3, "H")
             m == OptionalGroup(duration, h.next, "M")
             s == OptionalGroup(duration, m.next, "S")
         IN  [matched |-> TRUE, hours |-> h.digits, minutes |-> m.digits,
              seconds |-> s.digits]

\* int(digits)
RECURSIVE ParseInt(_)
ParseInt(digits) ==
    IF digits = <<>> THEN 0
    ELSE 10 * ParseInt(SubSeq(digits, 1, Len(digits) - 1)) + IntOf(digits[Len(digits)])

\* int(x) if x else 0
IntOrZero(digits) == IF digits # <<>> THEN ParseInt(digits) ELSE 0

\* str(n), f"{n}"
RECURSIVE Str(_)
Str(n) == IF n < 10 THEN <<Decimal[n + 1]>>
          ELSE Str(n \div 10) \o <<Decimal[(n % 10) + 1]>>

\* the field printed without a width
Pad2_NoWidth(n) == Str(n)

\* f"{n:02d}": filled with zeros up to width 2
Pad2(n) == IF Len(Str(n)) < 2 THEN <<"0">> \o Str(n) ELSE Str(n)

P0D == <<"P","0","D">>
\* the text "<red circle> Live"
LiveIndicator == <<"L","i","v","e">>
ZeroDuration == <<"0",":","0","0">>

\* parse_duration that shows the hours whenever the duration names them
parse_duration_HoursNamed(v, duration) ==
    IF v = "fetcher" /\ (duration = <<>> \/ duration = P0D) THEN LiveIndicator
    ELSE LET match == DurationMatch(duration)
             hours == IntOrZero(match.hours)
             minutes == IntOrZero(match.minutes)
             seconds == IntOrZero(match.seconds)
         IN  IF ~match.matched THEN ZeroDuration
             ELSE IF match.hours # <<>>
             THEN Str(hours) \o <<":">> \o Pad2(minutes) \o <<":">> \o Pad2(seconds)
             ELSE Str(minutes) \o <<":">> \o Pad2(seconds)

\* parse_duration of the variant v
parse_duration(v, duration) ==
    IF v = "fetcher" /\ (duration = <<>> \/ duration = P0D) THEN LiveIndicator
    ELSE LET match == DurationMatch(duration)
             hours == IntOrZero(match.hours)
             minutes == IntOrZero(match.minutes)
             seconds == IntOrZero(match.seconds)
         IN  IF ~match.matched THEN ZeroDuration
             ELSE IF hours > 0
             THEN Str(hours) \o <<":">> \o Pad2(minutes) \o <<":">> \o Pad2(seconds)
             ELSE Str(minutes) \o <<":">> \o Pad2(seconds)

\* keys liveStreamingDetails may hold; every value is a non-empty timestamp
LiveKeys == {"actualStartTime", "actualEndTime", "scheduledStartTime"}
\* video_detail without the key 'liveStreamingDetails'
NoLiveDetails == [present |-> FALSE, keys |-> {}]
LiveDetails == {NoLiveDetails} \cup [present : {TRUE}, keys : SUBSET LiveKeys]

\* total_seconds <= 60
ShortLimit == 60

\* the type with a Short being a video of less than ShortLimit seconds
video_type_Below(details, duration) ==
    LET live_details_ == details.keys
        live_type == IF live_details_ # {}
                     THEN IF "actualEndTime" \in live_details_ THEN "Live (Ended)"
                          ELSE IF "actualStartTime" \in live_details_ THEN "Live (Active)"
                          ELSE "Live (Scheduled)"
                     ELSE "Video"
        duration_match == DurationMatch(duration)
        total_seconds == IntOrZero(duration_match.hours) * 3600
                         + IntOrZero(duration_match.minutes) * 60
                         + IntOrZero(duration_match.seconds)
    IN  IF /\ duration # <<>> /\ duration # P0D
           /\ duration_match.matched
           /\ total_seconds < ShortLimit /\ live_type = "Video"
        THEN "Short" ELSE live_type

\* the type with the two live tests in the other order
video_type_StartFirst(details, duration) ==
    LET live_details_ == details.keys
        live_type == IF live_details_ # {}
                     THEN IF "actualStartTime" \in live_details_ THEN "Live (Active)"
                          ELSE IF "actualEndTime" \in live_details_ THEN "Live (Ended)"
                          ELSE "Live (Scheduled)"
                     ELSE "Video"
        duration_match == DurationMatch(duration)
        total_seconds == IntOrZero(duration_match.hours) * 3600
                         + IntOrZero(duration_match.minutes) * 60
                         + IntOrZero(duration_match.seconds)
    IN  IF /\ duration # <<>> /\ duration # P0D
           /\ duration_match.matched
           /\ total_seconds <= ShortLimit /\ live_type = "Video"
        THEN "Short" ELSE live_type

\* the type with the duration rule applied to live items too
video_type_DurationFirst(details, duration) ==
    LET live_details_ == details.keys
        live_type == IF live_details_ # {}
                     THEN IF "actualEndTime" \in live_details_ THEN "Live (Ended)"
                          ELSE IF "actualStartTime" \in live_details_ THEN "Live (Active)"
                          ELSE "Live (Scheduled)"
                     ELSE "Video"
        duration_match == DurationMatch(duration)
        total_seconds == IntOrZero(duration_match.hours) * 3600
                         + IntOrZero(duration_match.minutes) * 60
                         + IntOrZero(duration_match.seconds)
    IN  IF /\ duration # <<>> /\ duration # P0D
           /\ duration_match.matched
           /\ total_seconds <= ShortLimit
        THEN "Short" ELSE live_type

\* video_type of get_uploaded_videos.  live_details_ is
\* video_detail.get('liveStreamingDetails', {}): a dict, true when not empty
video_type(details, duration) ==
    LET live_details_ == details.keys
        live_type == IF live_details_ # {}
                     THEN IF "actualEndTime" \in live_details_ THEN "Live (Ended)"
                          ELSE IF "actualStartTime" \in live_details_ THEN "Live (Active)"
                          ELSE "Live (Scheduled)"
                     ELSE "Video"
        duration_match == DurationMatch(duration)
        total_seconds == IntOrZero(duration_match.hours) * 3600
                         + IntOrZero(duration_match.minutes) * 60
                         + IntOrZero(duration_match.seconds)
    IN  IF /\ duration # <<>> /\ duration # P0D
           /\ duration_match.matched
           /\ total_seconds <= ShortLimit /\ live_type = "Video"
        THEN "Short" ELSE live_type

\* no video_data built yet
NoVideoData == [built |-> FALSE, Type |-> "", Duration |-> <<>>]

\* the body of the zip loop for one details entry: Type (youtube_fetcher_app.py
\* only) and Duration of video_data
BuildVideoData ==
    /\ ~video_data.built
    /\ video_data' = [built |-> TRUE,
                      Type |-> IF variant = "fetcher"
                               THEN video_type(live_details, duration_iso) ELSE "",
                      Duration |-> parse_duration(variant, duration_iso)]
    /\ UNCHANGED <<variant, session, live_details, duration_iso, number_vars>>

\* durations the API serves: PT[nH][nM][nS] with each component present or
\* not (-1: not), the zero-length marker, a duration of a day or more, none
Component(n, letter) == IF n < 0 THEN <<>> ELSE Str(n) \o <<letter>>
Iso(h, m, s) == <<"P","T">> \o Component(h, "H") \o Component(m, "M") \o Component(s, "S")
DayAndHours == <<"P","1","D","T","2","H">>
Durations ==
    {Iso(h, m, s) : h \in -1..MaxHours, m \in -1..MaxMinutes, s \in -1..MaxSeconds}
        \cup {P0D, DayAndHours, <<>>}

(***************************************************************************)
(* format_number.  Its argument is an int, None or NaN.                    *)
(***************************************************************************)
Int_(n) == [kind |-> "int", n |-> n]
None_ == [kind |-> "None", n |-> 0]
NaN_ == [kind |-> "nan", n |-> 0]

\* format_number has not run
NotFormatted == [raised |-> FALSE, text |-> <<>>]
Returns(text) == [raised |-> FALSE, text |-> text]
Raises == [raised |-> TRUE, text |-> <<>>]

\* the largest power of 5 that divides the unit: n / unit is a binary
\* fraction, and so the float quotient exact, when it divides n
FivesOf(unit) == IF unit = 1000 THEN 125
                 ELSE IF unit = 1000000 THEN 15625 ELSE 1953125

\* the tenths f"{n/unit:.1f}" may print.  The quotient is the double nearest
\* to n / unit and is rounded to the nearest tenth.  When n / unit lies
\* exactly between two tenths, an exact quotient goes to the even tenth,
\* and an inexact one to the side the double fell on: either side
Tenths(n, unit) ==
    LET tenth == unit \div 10
        t0 == n \div tenth
        rest == n % tenth
    IN  IF 2 * rest < tenth THEN {t0}
        ELSE IF 2 * rest > tenth THEN {t0 + 1}
        ELSE IF n % FivesOf(unit) = 0
        THEN {IF t0 % 2 = 0 THEN t0 ELSE t0 + 1}
        ELSE {t0, t0 + 1}

\* f"{n/unit:.1f}<suffix>"
OneDecimal(n, unit, suffix) ==
    {Str(t0 \div 10) \o <<".", Decimal[(t0 % 10) + 1], suffix>> : t0 \in Tenths(n, unit)}

\* format_number with each threshold left to the smaller unit
format_number_Above(v, x) ==
    IF v # "app" /\ (x.kind # "int" \/ x.n = 0) THEN {Returns(<<"0">>)}
    ELSE IF x.kind = "None" THEN {Raises}
    ELSE IF x.kind = "nan" THEN {Returns(<<"n","a","n">>)}
    ELSE IF x.n > 1000000000 THEN {Returns(s) : s \in OneDecimal(x.n, 1000000000, "B")}
    ELSE IF x.n > 1000000 THEN {Returns(s) : s \in OneDecimal(x.n, 1000000, "M")}
    ELSE IF x.n > 1000 THEN {Returns(s) : s \in OneDecimal(x.n, 1000, "K")}
    ELSE {Returns(Str(x.n))}

\* format_number of the variant v: the set of what the call may give
format_number(v, x) ==
    IF v # "app" /\ (x.kind # "int" \/ x.n = 0) THEN {Returns(<<"0">>)}
    \* app.py: None >= 1_000_000_000 raises TypeError
    ELSE IF x.kind = "None" THEN {Raises}
    \* app.py: every comparison with NaN is false; str(float('nan'))
    ELSE IF x.kind = "nan" THEN {Returns(<<"n","a","n">>)}
    ELSE IF x.n >= 1000000000 THEN {Returns(s) : s \in OneDecimal(x.n, 1000000000, "B")}
    ELSE IF x.n >= 1000000 THEN {Returns(s) : s \in OneDecimal(x.n, 1000000, "M")}
    ELSE IF x.n >= 1000 THEN {Returns(s) : s \in OneDecimal(x.n, 1000, "K")}
    ELSE {Returns(Str(x.n))}

\* one call of format_number
FormatNumber ==
    /\ formatted = NotFormatted
    /\ formatted' \in format_number(variant, num)
    /\ UNCHANGED <<variant, session, item_vars, num>>

\* counts tried: every count up to MaxNum, and counts at and around the thresholds
MaxNum == 30
Nums ==
    {Int_(n) : n \in (0..MaxNum) \cup
        {999, 1000, 1049, 1050, 1051, 1250, 1500, 1750, 99949, 999949, 999950,
         999999, 1000000, 2300000, 999949999, 999999999, 1000000000, 2100000000}}
        \cup {None_, NaN_}

(***************************************************************************)
(* Sessions.                                                               *)
(***************************************************************************)
\* nothing is being joined or formatted
ItemIdle ==
    /\ live_details = NoLiveDetails
    /\ duration_iso = <<>>
    /\ video_data = NoVideoData
NumberIdle ==
    /\ num = None_
    /\ formatted = NotFormatted

Init ==
    /\ ItemIdle
    /\ NumberIdle
    /\ variant \in Variants
    /\ uploads \in SeqsUpTo(UploadEntries, MaxUploads)
    /\ playlists \in IF variant = "fetcher"
                     THEN SeqsUpTo(PlaylistEntries, MaxPlaylists) ELSE {<<>>}
    /\ session_state = Unset
    /\ pc = "idle"
    /\ fetches = 0
    /\ channel_input = <<>>
    /\ username = <<>>
    /\ channel_id = NoChannel
    /\ channel_info = NullInfo
    /\ all_videos = <<>>
    /\ all_playlists = <<>>
    /\ next_page_token = NoToken
    /\ response = NoResponse
    /\ calls = <<>>
    /\ errors = 0
    /\ progress = <<>>
    /\ ret = ReturnNone

\* references typed in the sessions of Spec
SomeRefs == {RefCanonical, RefUnmatchedUrl, Name}

\* a session of Spec is its first fetch
Next ==
    \/ fetches = 0 /\ FetchButton(SomeRefs)
    \/ ChannelsListForUsername
    \/ ChannelsListForHandle
    \/ SearchList
    \/ ChannelsListById
    \/ PlaylistItemsList
    \/ VideosList
    \/ PlaylistsList

Spec == Init /\ [][Next]_vars

\* sessions that try every reference of AllRefs, on channels of at most one upload
InitResolver == Init /\ Len(uploads) <= 1 /\ playlists = <<>>

NextResolver ==
    \/ fetches = 0 /\ FetchButton(AllRefs)
    \/ ChannelsListForUsername
    \/ ChannelsListForHandle
    \/ SearchList
    \/ ChannelsListById
    \/ PlaylistItemsList
    \/ VideosList
    \/ PlaylistsList

SpecResolver == InitResolver /\ [][NextResolver]_vars

\* sessions that fetch by channel id: uploads of one video listed again and
\* again, and for youtube_fetcher_app.py playlists that fill more than a page
InitPasses ==
    /\ ItemIdle
    /\ NumberIdle
    /\ variant \in Variants
    /\ uploads \in SeqsUpTo({[videoId |-> 2, publishedAt |-> 1]}, MaxUploads)
    /\ playlists \in IF variant = "fetcher"
                     THEN SeqsUpTo(PlaylistEntries, MaxResults + 1) ELSE {<<>>}
    /\ session_state = Unset
    /\ pc = "idle"
    /\ fetches = 0
    /\ channel_input = <<>>
    /\ username = <<>>
    /\ channel_id = NoChannel
    /\ channel_info = NullInfo
    /\ all_videos = <<>>
    /\ all_playlists = <<>>
    /\ next_page_token = NoToken
    /\ response = NoResponse
    /\ calls = <<>>
    /\ errors = 0
    /\ progress = <<>>
    /\ ret = ReturnNone

NextPasses ==
    \/ fetches = 0 /\ FetchButton({RefCanonical})
    \/ ChannelsListById
    \/ PlaylistItemsList
    \/ VideosList
    \/ PlaylistsList

SpecPasses == InitPasses /\ [][NextPasses]_vars

\* every request is answered or fails, and the code runs on to the next one
FairPasses == SpecPasses /\ WF_vars(NextPasses)

\* a session before its first fetch, on a channel without content
InitIdle ==
    /\ variant \in Variants
    /\ uploads = <<>>
    /\ playlists = <<>>
    /\ session_state = Unset
    /\ pc = "idle"
    /\ fetches = 0
    /\ channel_input = <<>>
    /\ username = <<>>
    /\ channel_id = NoChannel
    /\ channel_info = NullInfo
    /\ all_videos = <<>>
    /\ all_playlists = <<>>
    /\ next_page_token = NoToken
    /\ response = NoResponse
    /\ calls = <<>>
    /\ errors = 0
    /\ progress = <<>>
    /\ ret = ReturnNone

\* one details entry joined into an item: any duration, and any live
\* details where the variant asks for them
InitItem ==
    /\ InitIdle
    /\ NumberIdle
    /\ duration_iso \in Durations
    /\ live_details \in IF variant = "fetcher" THEN LiveDetails ELSE {NoLiveDetails}
    /\ video_data = NoVideoData

NextItem == BuildVideoData

SpecItem == InitItem /\ [][NextItem]_vars

\* one count formatted
InitNumber ==
    /\ InitIdle
    /\ ItemIdle
    /\ num \in Nums
    /\ formatted = NotFormatted

NextNumber == FormatNumber

SpecNumber == InitNumber /\ [][NextNumber]_vars


(***************************************************************************)
(* What the claims speak of.                                               *)
(***************************************************************************)
\* a fetch has run and has returned to main
Returned == pc = "idle" /\ fetches > 0

EnumerationApis == {"playlistItems", "videos", "playlists"}
LookupApis == {"channels.forUsername", "channels.forHandle", "search"}

CallsOf(apis) == {k \in DOMAIN calls : calls[k].api \in apis}

\* some call of the enumeration raised
EnumerationFailed == \E k \in CallsOf(EnumerationApis) : calls[k].out = "raise"

\* no call of the fetch raised
NoCallRaised == \A k \in DOMAIN calls : calls[k].out # "raise"

\* the channel was resolved and its channel info found
ChannelFound == \E k \in CallsOf({"channels.id"}) : calls[k].out = "found"

\* the videoCount the channel info reported
ReportedCount == calls[CHOOSE k \in CallsOf({"channels.id"}) : TRUE].count

CeilDiv(n, d) == (n + d - 1) \div d

UploadedRows(data) == {k \in DOMAIN data : data[k].type = "video"}

(***************************************************************************)
(* C1.  If any upstream call made during the enumeration (uploads page,    *)
(* video details, playlist page) fails, the fetch ends in failure: it      *)
(* returns no result, reports an error, and hands no item to the caller.   *)
(***************************************************************************)
C1_FailedCallFailsFetch ==
    (Returned /\ EnumerationFailed) =>
        (~ret.ok /\ ret.data = <<>> /\ errors > 0)

(***************************************************************************)
(* C2.  For a channel whose uploads listing holds N >= 1 items, when every *)
(* upstream call succeeds, the fetch issues exactly ceil(N / page size)    *)
(* uploads-page requests and returns exactly N uploaded items, sorted      *)
(* descending by publish date.                                             *)
(***************************************************************************)
C2_PaginationEndToEnd ==
    (Returned /\ ChannelFound /\ NoCallRaised /\ Len(uploads) >= 1) =>
        /\ Cardinality(CallsOf({"playlistItems"})) = CeilDiv(Len(uploads), MaxResults)
        /\ ret.ok
        /\ Cardinality(UploadedRows(ret.data)) = Len(uploads)
        /\ \A k \in 1..(Len(ret.data) - 1) :
               DayOf(ret.data[k].published_at) >= DayOf(ret.data[k + 1].published_at)

(***************************************************************************)
(* C3.  In the list a successful fetch returns, every item's publishedAt   *)
(* timestamp is greater than or equal to that of the item after it.        *)
(***************************************************************************)
C3_SortedByPublishedAt ==
    (Returned /\ ret.ok) =>
        \A k \in 1..(Len(ret.data) - 1) :
            ret.data[k].published_at >= ret.data[k + 1].published_at

(***************************************************************************)
(* C4.  Two items with the same publishedAt stand in the final list in the *)
(* order in which they were accumulated.                                   *)
(***************************************************************************)
C4_StableSort ==
    (Returned /\ ret.ok) =>
        \A i, j \in DOMAIN ret.data :
            (i < j /\ ret.data[i].published_at = ret.data[j].published_at) =>
                ret.data[i].pos < ret.data[j].pos

(***************************************************************************)
(* C5.  In the result of a fetch every contentId occurs exactly once.      *)
(***************************************************************************)
C5_UniqueContentId ==
    (Returned /\ ret.ok) =>
        \A i, j \in DOMAIN ret.data :
            ret.data[i].content_id = ret.data[j].content_id => i = j

(***************************************************************************)
(* C6.  When the channel is found, reports a video count of 0, and its     *)
(* listings yield no items, the fetch succeeds with an empty list, no      *)
(* error is surfaced, and the session's last-fetch result becomes that     *)
(* empty result.                                                           *)
(***************************************************************************)
C6_EmptyChannelSucceeds ==
    (/\ Returned /\ ChannelFound /\ NoCallRaised
     /\ uploads = <<>> /\ playlists = <<>>
     /\ ReportedCount = "0") =>
        /\ ret.ok
        /\ ret.data = <<>>
        /\ errors = 0
        /\ session_state = [some |-> TRUE, data |-> <<>>, info |-> ret.info]

(***************************************************************************)
(* C7.  When a fetch returns, the cached pair is the result of that fetch  *)
(* if it succeeded, and is what it was before if the fetch failed; so the  *)
(* cache always holds the whole result of the latest successful fetch.     *)
(***************************************************************************)
C7_CacheIsLastSuccess ==
    [][(pc' = "idle" /\ fetches' > 0 /\ (pc # "idle" \/ fetches' # fetches)) =>
          session_state' = IF ret'.ok
                           THEN [some |-> TRUE, data |-> ret'.data, info |-> ret'.info]
                           ELSE session_state]_vars


(***************************************************************************)
(* Resolution as the calls of a fetch show it.                             *)
(***************************************************************************)
\* starts with 'UC' and is 24 characters long
CanonicalShape(ref) == Len(ref) = CanonicalLen /\ ref[1] = "U" /\ ref[2] = "C"

\* the fetch took arg for the channel id, without any lookup
UsedAsChannelId(arg) ==
    /\ CallsOf(LookupApis) = {}
    /\ pc \notin LookupApis
    /\ IF calls = <<>>
       THEN pc = "channels.id" /\ channel_id = arg
       ELSE calls[1].api = "channels.id" /\ calls[1].name = arg

\* the fetch handed arg to get_channel_id_from_username
PassedToChain(arg) ==
    IF calls = <<>>
    THEN pc = "channels.forUsername" /\ username = arg
    ELSE calls[1].api = "channels.forUsername" /\ calls[1].name = arg

RoutedTo(to, arg) == IF to = "id" THEN UsedAsChannelId(arg) ELSE PassedToChain(arg)

(***************************************************************************)
(* C8.  A reference of the canonical-id shape (starts with 'UC', length    *)
(* 24) is the channel id as it stands, and none of the resolution lookups  *)
(* (by username, by handle, channel search) is issued.                     *)
(***************************************************************************)
C8_CanonicalShortcut ==
    (fetches > 0 /\ CanonicalShape(channel_input)) => UsedAsChannelId(channel_input)

\* a canonical-shaped reference that also holds the domain went straight to
\* the channel-info request
C8_Witness ==
    /\ CanonicalShape(channel_input)
    /\ Contains(channel_input, Domain)
    /\ pc = "playlistItems"
    /\ Len(calls) = 1
    /\ calls[1].name = channel_input

(***************************************************************************)
(* C9.  For a reference that holds the platform domain and is not of the   *)
(* canonical-id shape, the patterns /channel/<id>, /c/<name>,              *)
(* /user/<name>, /@<handle> are tried in that order and the first match    *)
(* wins; a /channel/ match is used as the channel id with no lookup, any   *)
(* other match is passed to the username/handle resolution chain.          *)
(***************************************************************************)
\* what the rule asks for, reference by reference
UrlRoutes ==
    {[ref |-> RefChannelUrl, to |-> "id", arg |-> RefCanonical],
     [ref |-> RefChannelUrl24, to |-> "id", arg |-> <<"U","C","a","b">>],
     [ref |-> RefChannelLater, to |-> "id", arg |-> <<"U","C","z">>],
     [ref |-> RefCustomUrl, to |-> "lookup", arg |-> Name],
     [ref |-> RefUserUrl, to |-> "lookup", arg |-> Name],
     [ref |-> RefHandleUrl, to |-> "lookup", arg |-> Name],
     [ref |-> RefTwoPatterns, to |-> "lookup", arg |-> <<"b">>],
     [ref |-> RefEmptySegment, to |-> "lookup", arg |-> <<"d">>]}

C9_UrlRouting ==
    fetches > 0 =>
        \A r \in UrlRoutes : channel_input = r.ref => RoutedTo(r.to, r.arg)

\* /@ is leftmost in the reference, /user/ comes first in the list: "b" is looked up
C9_Witness ==
    /\ channel_input = RefTwoPatterns
    /\ pc = "channels.forHandle"
    /\ calls[1].name = <<"b">>

\* C9 as first stated: for every reference that holds the platform domain
C9_UrlRoutingAnyReference ==
    fetches > 0 =>
        \A r \in UrlRoutes \cup {[ref |-> RefCanonicalUrl, to |-> "lookup",
                                  arg |-> <<"a","b","c","d","e","f","g","h","i">>]} :
            channel_input = r.ref => RoutedTo(r.to, r.arg)

(***************************************************************************)
(* C10.  get_channel_id_from_username tries by-username, by-handle and     *)
(* channel search strictly in that order; the result is the id of the      *)
(* first strategy that succeeds, and no later strategy is invoked once an  *)
(* earlier one has succeeded.                                              *)
(***************************************************************************)
StrategyOrder == <<"channels.forUsername", "channels.forHandle", "search">>
StrategyTag == <<"forUsername:", "forHandle:", "search:">>

\* the id the k-th call, a successful lookup, returned
IdReturned(k) == <<StrategyTag[k]>> \o calls[k].name

C10_OrderOfAttempt ==
    /\ \A k \in CallsOf(LookupApis) :
           /\ k <= Len(StrategyOrder)
           /\ calls[k].api = StrategyOrder[k]
           /\ \A j \in 1..(k - 1) : calls[j].api \in LookupApis /\ calls[j].out # "found"
           /\ calls[k].out = "found" =>
                  IF Len(calls) = k
                  THEN pc = "channels.id" /\ channel_id = IdReturned(k)
                  ELSE calls[k + 1].api = "channels.id" /\ calls[k + 1].name = IdReturned(k)
    /\ \A k \in 2..Len(StrategyOrder) :
           pc = StrategyOrder[k] => Len(calls) = k - 1 /\ calls[k - 1].api = StrategyOrder[k - 1]

\* the by-username lookup failed, the by-handle lookup succeeded, and the
\* fetch goes on with the id the by-handle lookup returned
C10_Witness ==
    /\ Len(calls) = 2
    /\ calls[1].api = "channels.forUsername" /\ calls[1].out = "raise"
    /\ calls[2].api = "channels.forHandle" /\ calls[2].out = "found"
    /\ pc = "channels.id"
    /\ channel_id = <<"forHandle:", "@">> \o Name

(***************************************************************************)
(* C11.  A by-username or by-handle lookup that finds nothing or raises is *)
(* swallowed (nothing is reported) and the next strategy is attempted;     *)
(* the chain gives no id only when username, handle and search were all    *)
(* attempted and none found a channel; an exception of the search is       *)
(* caught and reported inside the chain, never by the fetch around it.     *)
(***************************************************************************)
\* the chain was entered and the fetch returned without a channel-info request
ChainGaveNone ==
    Returned /\ CallsOf(LookupApis) # {} /\ CallsOf({"channels.id"}) = {}

C11_FailuresSwallowed ==
    /\ \A k \in CallsOf({"channels.forUsername", "channels.forHandle"}) :
           calls[k].out # "found" =>
               IF Len(calls) = k
               THEN pc = StrategyOrder[k + 1] /\ errors = 0
               ELSE calls[k + 1].api = StrategyOrder[k + 1]
    /\ ChainGaveNone =>
           /\ Len(calls) = Len(StrategyOrder)
           /\ \A k \in DOMAIN calls :
                  calls[k].api = StrategyOrder[k] /\ calls[k].out # "found"
           /\ ~ret.ok
           \* a raised search: the chain's report and the caller's; else the caller's
           /\ errors = IF calls[Len(calls)].out = "raise" THEN 2 ELSE 1

\* username lookup raised, handle lookup raised, search found nothing
C11_Witness ==
    /\ ChainGaveNone
    /\ calls[1].out = "raise"
    /\ calls[2].out = "raise"
    /\ calls[3].out = "empty"
    /\ errors = 1

(***************************************************************************)
(* C12.  When no channel id can be derived from the reference (a URL that  *)
(* matches no pattern, or a chain whose three strategies all failed), the  *)
(* fetch reports an error and returns no result, and no channel-info,      *)
(* uploads-page, details or playlist request is issued in that fetch.      *)
(***************************************************************************)
\* no id can be derived from the reference of the fetch
ResolutionFailed ==
    /\ fetches > 0
    /\ \/ channel_input = RefUnmatchedUrl
       \/ \E k \in CallsOf({"search"}) : calls[k].out # "found"

C12_ResolutionFailureStops ==
    ResolutionFailed =>
        /\ pc = "idle"
        /\ ~ret.ok /\ ret.data = <<>>
        /\ errors >= 1
        /\ CallsOf({"channels.id"} \cup EnumerationApis) = {}

\* a found-nothing search ended the fetch after the three lookups
C12_Witness ==
    /\ ResolutionFailed
    /\ Returned
    /\ Len(calls) = 3
    /\ calls[3].api = "search" /\ calls[3].out = "empty"
    /\ errors = 1

(***************************************************************************)
(* C13.  Within one fetch no upstream request is issued twice: no two      *)
(* requests to a listing or lookup endpoint carry the same argument and    *)
(* continuation token, every details request follows an uploads-page       *)
(* request that succeeded (one details request per page), and so a request *)
(* that failed is never issued again.                                      *)
(***************************************************************************)
SameRequest(i, j) ==
    /\ calls[i].api = calls[j].api
    /\ calls[i].name = calls[j].name
    /\ calls[i].token = calls[j].token

C13_NoRetry ==
    /\ \A i, j \in DOMAIN calls :
           (i < j /\ calls[i].api # "videos") => ~SameRequest(i, j)
    /\ \A k \in CallsOf({"videos"}) :
           /\ k > 1
           /\ calls[k - 1].api = "playlistItems"
           /\ calls[k - 1].out = "found"
    /\ \A k \in DOMAIN calls :
           (calls[k].out = "raise" /\ calls[k].api \in {"playlistItems", "playlists"}) =>
               \A j \in (k + 1)..Len(calls) : calls[j].api # calls[k].api

\* the request for the second uploads page failed and the fetch has returned
C13_Witness ==
    /\ Returned
    /\ \E k \in CallsOf({"playlistItems"}) :
           calls[k].token # NoToken /\ calls[k].out = "raise"

(***************************************************************************)
(* Items as the claims describe them.                                      *)
(***************************************************************************)
\* a component that is not there counts as zero
OrZero(n) == IF n < 0 THEN 0 ELSE n

\* the duration PT[hH][mM][sS] in seconds
SecondsOf(h, m, s) == OrZero(h) * 3600 + OrZero(m) * 60 + OrZero(s)

\* an item of youtube_fetcher_app.py has been built from the details entry
Classified == video_data.built /\ variant = "fetcher"

(***************************************************************************)
(* C14.  An uploaded item with no live-broadcast metadata whose duration   *)
(* parses to d seconds is a Short when d <= 60 and a Video when d >= 61.   *)
(***************************************************************************)
C14_ShortThreshold ==
    (Classified /\ ~live_details.present) =>
        \A h \in -1..MaxHours, m \in -1..MaxMinutes, s \in -1..MaxSeconds :
            duration_iso = Iso(h, m, s) =>
                video_data.Type = IF SecondsOf(h, m, s) <= 60 THEN "Short" ELSE "Video"

\* PT1M, sixty seconds, without live metadata: a Short
C14_Witness ==
    /\ Classified
    /\ ~live_details.present
    /\ duration_iso = <<"P","T","1","M">>
    /\ video_data.Type = "Short"

(***************************************************************************)
(* C15.  An item whose live-broadcast metadata has an end timestamp is     *)
(* LiveEnded; one whose metadata has a start timestamp and no end          *)
(* timestamp is LiveActive; both whatever the duration.                    *)
(***************************************************************************)
C15_LiveEndedActive ==
    (Classified /\ live_details.present) =>
        /\ "actualEndTime" \in live_details.keys => video_data.Type = "Live (Ended)"
        /\ ("actualStartTime" \in live_details.keys
                /\ "actualEndTime" \notin live_details.keys) =>
               video_data.Type = "Live (Active)"

\* a broadcast of thirty seconds with start and end: LiveEnded
C15_Witness ==
    /\ Classified
    /\ live_details.keys = {"actualStartTime", "actualEndTime"}
    /\ duration_iso = <<"P","T","3","0","S">>
    /\ video_data.Type = "Live (Ended)"

(***************************************************************************)
(* C16.  An item whose live-broadcast metadata is present with neither an  *)
(* actual start nor an actual end timestamp, a metadata object without     *)
(* any field included, is LiveScheduled, never Video or Short.             *)
(***************************************************************************)
C16_LiveScheduled ==
    (/\ Classified /\ live_details.present
     /\ "actualStartTime" \notin live_details.keys
     /\ "actualEndTime" \notin live_details.keys) =>
        video_data.Type = "Live (Scheduled)"

(***************************************************************************)
(* C17.  For a duration PT[nH][nM][nS], any of the components missing,     *)
(* parse_duration gives H:MM:SS when the hours are above zero and M:SS     *)
(* otherwise: PT1H2M3S is 1:02:03, PT45S is 0:45, PT2M is 2:00.            *)
(***************************************************************************)
\* a number below 100 in two digits
TwoDigits(n) == <<Decimal[(n \div 10) + 1], Decimal[(n % 10) + 1]>>

Rendered(h, m, s) ==
    IF OrZero(h) > 0
    THEN Str(h) \o <<":">> \o TwoDigits(OrZero(m)) \o <<":">> \o TwoDigits(OrZero(s))
    ELSE Str(OrZero(m)) \o <<":">> \o TwoDigits(OrZero(s))

C17_DurationRendering ==
    video_data.built =>
        /\ \A h \in -1..MaxHours, m \in -1..MaxMinutes, s \in -1..MaxSeconds :
               duration_iso = Iso(h, m, s) => video_data.Duration = Rendered(h, m, s)
        /\ duration_iso = <<"P","T","1","H","2","M","3","S">> =>
               video_data.Duration = <<"1",":","0","2",":","0","3">>
        /\ duration_iso = <<"P","T","4","5","S">> =>
               video_data.Duration = <<"0",":","4","5">>
        /\ duration_iso = <<"P","T","2","M">> =>
               video_data.Duration = <<"2",":","0","0">>

\* PT0H2M3S names the hours, which are zero: 2:03
C17_Witness ==
    /\ video_data.built
    /\ duration_iso = <<"P","T","0","H","2","M","3","S">>
    /\ video_data.Duration = <<"2",":","0","3">>

(***************************************************************************)
(* C18.  In every variant parse_duration renders P0D as the live           *)
(* indicator, never as a numeric duration.                                 *)
(***************************************************************************)
C18_ZeroLengthMarker ==
    (video_data.built /\ duration_iso = P0D) => video_data.Duration = LiveIndicator

(***************************************************************************)
(* C19.  In every numeric duration string of parse_duration (components    *)
(* below 100) the seconds field has exactly two digits; when the hours     *)
(* are shown the minutes field has exactly two digits and the hours field  *)
(* is unpadded; when they are not, the minutes field is unpadded.          *)
(***************************************************************************)
Max(S) == CHOOSE x \in S : \A y \in S : y <= x
ColonsOf(d) == {i \in DOMAIN d : d[i] = ":"}
HoursShown(d) == Cardinality(ColonsOf(d)) = 2
SecondsField(d) == SubSeq(d, Max(ColonsOf(d)) + 1, Len(d))
MinutesField(d) ==
    IF HoursShown(d) THEN SubSeq(d, Min(ColonsOf(d)) + 1, Max(ColonsOf(d)) - 1)
    ELSE SubSeq(d, 1, Max(ColonsOf(d)) - 1)
HoursField(d) == SubSeq(d, 1, Min(ColonsOf(d)) - 1)
Unpadded(f) == f # <<>> /\ (Len(f) = 1 \/ f[1] # "0")
NumericDuration == video_data.built /\ video_data.Duration # LiveIndicator

C19_DurationPadding ==
    NumericDuration =>
        LET d == video_data.Duration
        IN  /\ Cardinality(ColonsOf(d)) \in {1, 2}
            /\ Len(SecondsField(d)) = 2
            /\ IF HoursShown(d)
               THEN Len(MinutesField(d)) = 2 /\ Unpadded(HoursField(d))
               ELSE Unpadded(MinutesField(d))

\* one hour, two minutes, three seconds: both fields filled up with a zero
C19_Witness ==
    /\ NumericDuration
    /\ duration_iso = <<"P","T","1","H","2","M","3","S">>
    /\ MinutesField(video_data.Duration) = <<"0","2">>
    /\ SecondsField(video_data.Duration) = <<"0","3">>

\* C19 as first stated: the minutes field has two digits in every numeric string
C19_MinutesAlwaysPadded ==
    NumericDuration =>
        LET d == video_data.Duration
        IN  /\ Len(SecondsField(d)) = 2
            /\ Len(MinutesField(d)) = 2
            /\ HoursShown(d) => Unpadded(HoursField(d))

(***************************************************************************)
(* C20.  For a positive integer n, format_number gives n / 1e9 with one    *)
(* decimal and 'B' when n >= 1e9, n / 1e6 with one decimal and 'M' when    *)
(* 1e6 <= n < 1e9, n / 1e3 with one decimal and 'K' when 1e3 <= n < 1e6,   *)
(* and the plain integer below 1e3: 999 is '999', 1500 is '1.5K',          *)
(* 2300000 is '2.3M'.                                                      *)
(***************************************************************************)
DotOf(text) == CHOOSE i \in DOMAIN text : text[i] = "."
Distance(a, b) == IF a >= b THEN a - b ELSE b - a

\* text is <whole>.<digit><suffix>, the tenths nearest to n / unit
Abbreviates(text, n, unit, suffix) ==
    /\ \E i \in DOMAIN text : text[i] = "."
    /\ LET i == DotOf(text)
           whole == SubSeq(text, 1, i - 1)
       IN  /\ Len(text) = i + 2
           /\ text[i + 2] = suffix
           /\ text[i + 1] \in Digit
           /\ whole # <<>> /\ \A k \in DOMAIN whole : whole[k] \in Digit
           /\ Unpadded(whole)
           /\ 2 * Distance(n, (10 * ParseInt(whole) + IntOf(text[i + 1])) * (unit \div 10))
                  <= unit \div 10

PlainInteger(text, n) ==
    /\ text # <<>> /\ \A k \in DOMAIN text : text[k] \in Digit
    /\ Unpadded(text)
    /\ ParseInt(text) = n

C20_AbbreviationThresholds ==
    (formatted # NotFormatted /\ num.kind = "int" /\ num.n > 0) =>
        /\ ~formatted.raised
        /\ IF num.n >= 1000000000
           THEN Abbreviates(formatted.text, num.n, 1000000000, "B")
           ELSE IF num.n >= 1000000
           THEN Abbreviates(formatted.text, num.n, 1000000, "M")
           ELSE IF num.n >= 1000
           THEN Abbreviates(formatted.text, num.n, 1000, "K")
           ELSE PlainInteger(formatted.text, num.n)
        /\ num.n = 999 => formatted.text = <<"9","9","9">>
        /\ num.n = 1500 => formatted.text = <<"1",".","5","K">>
        /\ num.n = 2300000 => formatted.text = <<"2",".","3","M">>

\* exactly one thousand is abbreviated
C20_Witness ==
    /\ num = Int_(1000)
    /\ formatted = Returns(<<"1",".","0","K">>)

UserPlaylist(p) == p.title \notin {"Uploads", "Liked videos", "Favorites"}
Kept(listing) == SelectSeq(listing, UserPlaylist)

\* item is the item of playlist p
ItemOfPlaylist(row, p) ==
    /\ row.type = "playlist"
    /\ row.content_id = p.id
    /\ row.published_at = p.publishedAt
    /\ row.stats_of = 0

\* the playlist pass ran to its end without a failed request
PlaylistPassDone ==
    /\ Returned /\ variant = "fetcher" /\ ChannelFound
    /\ \A k \in CallsOf({"playlists"}) : calls[k].out = "found"

C22_PlaylistPass ==
    /\ pc = "playlists" =>
           LET kept == Kept(SubSeq(playlists, 1, PageStart(next_page_token) - 1))
           IN  /\ Len(all_playlists) = Len(kept)
               /\ \A k \in DOMAIN kept : ItemOfPlaylist(all_playlists[k], kept[k])
    /\ PlaylistPassDone =>
           LET kept == Kept(playlists)
               rows == {k \in DOMAIN ret.data : ret.data[k].type = "playlist"}
               videos == Cardinality(UploadedRows(ret.data))
               pages == IF playlists = <<>> THEN 1 ELSE CeilDiv(Len(playlists), MaxResults)
           IN  /\ ret.ok
               /\ Cardinality(rows) = Len(kept)
               /\ \A k \in rows :
                      /\ ret.data[k].pos - videos \in DOMAIN kept
                      /\ ItemOfPlaylist(ret.data[k], kept[ret.data[k].pos - videos])
               /\ Cardinality(CallsOf({"playlists"})) = pages

\* a listing of two pages with 'Uploads' among two playlists of the user
C22_Witness ==
    /\ PlaylistPassDone
    /\ Cardinality(CallsOf({"playlists"})) = 2
    /\ Len(playlists) = 3
    /\ Len(Kept(playlists)) = 2
    /\ Cardinality({k \in DOMAIN ret.data : ret.data[k].type = "playlist"}) = 2

(***************************************************************************)
(* C23.  During the uploads enumeration one progress report is emitted     *)
(* after each successfully fetched page, in page order; the count of the   *)
(* report after page k is the number of items accumulated from pages 1..k, *)
(* so the counts never decrease; a page whose fetch failed has no report.  *)
(***************************************************************************)
IsVideoReport(r) == r.what = "videos"
VideoReports == SelectSeq(progress, IsVideoReport)

\* the details request of the page of call k, if one was made
DetailsMade(k) == k < Len(calls) /\ calls[k + 1].api = "videos"

\* the uploads page of call k was fetched and the loop body has run for it
\* (app.py goes on when the details request failed, and makes none for no ids)
PageDone(k) ==
    /\ calls[k].api = "playlistItems"
    /\ calls[k].out = "found"
    /\ IF DetailsMade(k) THEN calls[k + 1].out = "found" \/ variant = "app"
       ELSE ~(k = Len(calls) /\ pc = "videos")

PagesDone == {k \in DOMAIN calls : PageDone(k)}

\* items the page of call k added: as many as the shorter of ids and entries
ItemsOfPage(k) ==
    IF DetailsMade(k) /\ calls[k + 1].out = "found"
    THEN IF Len(calls[k + 1].ids) <= Len(calls[k + 1].got)
         THEN Len(calls[k + 1].ids) ELSE Len(calls[k + 1].got)
    ELSE 0

\* items accumulated from the pages of the calls up to k
RECURSIVE ItemsUpTo(_)
ItemsUpTo(k) ==
    IF k = 0 THEN 0
    ELSE ItemsUpTo(k - 1) + (IF k \in PagesDone THEN ItemsOfPage(k) ELSE 0)

\* the call of the j-th page done
PageNumber(j) == CHOOSE k \in PagesDone : Cardinality({i \in PagesDone : i <= k}) = j

ListingOf(api) == IF api = "playlistItems" THEN uploads ELSE playlists

\* the token the response to call k carried
TokenReturned(k) == NextPageToken(ListingOf(calls[k].api), calls[k].token)

\* call j is the request of its enumeration that follows call i
NextRequest(i, j) ==
    /\ i < j
    /\ calls[i].api = calls[j].api
    /\ \A m \in (i + 1)..(j - 1) : calls[m].api # calls[i].api

TokenChain ==
    \A api \in {"playlistItems", "playlists"} :
        LET S == CallsOf({api})
        IN  /\ S # {} => calls[Min(S)].token = NoToken
            /\ \A i, j \in S :
                   NextRequest(i, j) =>
                       /\ calls[i].out = "found"
                       /\ TokenReturned(i) # NoToken
                       /\ calls[j].token = TokenReturned(i)
            /\ pc = api =>
                   next_page_token = IF S = {} THEN NoToken ELSE TokenReturned(Max(S))

C24_FreshTokenTermination ==
    /\ []TokenChain
    /\ (fetches > 0) ~> (pc = "idle")

\* uploads of two pages, the second request failed with its token still held,
\* and the playlist pass ran over two pages of its own
C24_Witness ==
    /\ Returned
    /\ variant = "fetcher"
    /\ \E k \in CallsOf({"playlistItems"}) : calls[k].token # NoToken /\ calls[k].out = "raise"
    /\ Cardinality(CallsOf({"playlists"})) = 2

(***************************************************************************)
(* C25.  For each uploads page the i-th item joins the i-th snippet entry  *)
(* of the page with the i-th entry of the page's details response, neither *)
(* sequence reordered; when every details response lists one entry per     *)
(* requested id in request order, every item's statistics are those of the *)
(* video its contentId names.                                              *)
(***************************************************************************)
\* a details request that was answered
IsJoin(k) == calls[k].api = "videos" /\ calls[k].out = "found"

\* what the join of the details response of call k with its page must give
JoinOf(k) ==
    LET page == PageOf(uploads, calls[k - 1].token)
        got == calls[k].got
    IN  [i \in 1..(IF Len(page) <= Len(got) THEN Len(page) ELSE Len(got)) |->
            [content_id |-> page[i].videoId, published_at |-> page[i].publishedAt,
             stats_of |-> got[i]]]

RECURSIVE JoinedUpTo(_)
JoinedUpTo(k) ==
    IF k = 0 THEN <<>>
    ELSE JoinedUpTo(k - 1) \o (IF IsJoin(k) THEN JoinOf(k) ELSE <<>>)

SameItem(row, joined) ==
    /\ row.content_id = joined.content_id
    /\ row.published_at = joined.published_at
    /\ row.stats_of = joined.stats_of

\* every details response so far listed the requested ids in request order
DetailsComplete == \A k \in DOMAIN calls : IsJoin(k) => calls[k].got = calls[k].ids

\* the fetch returned a result that holds the items of the uploads
UploadsReturned ==
    /\ Returned /\ ret.ok
    /\ variant = "fetcher" =>
           \A k \in CallsOf({"playlistItems", "videos"}) : calls[k].out = "found"

C25_PositionalJoin ==
    LET joined == JoinedUpTo(Len(calls))
    IN  /\ pc \in {"playlistItems", "videos"} =>
               /\ Len(all_videos) = Len(joined)
               /\ \A i \in DOMAIN joined : SameItem(all_videos[i], joined[i])
        /\ UploadsReturned =>
               /\ Cardinality(UploadedRows(ret.data)) = Len(joined)
               /\ \A k \in UploadedRows(ret.data) :
                      /\ ret.data[k].pos \in DOMAIN joined
                      /\ SameItem(ret.data[k], joined[ret.data[k].pos])
               /\ DetailsComplete =>
                      \A k \in UploadedRows(ret.data) :
                          ret.data[k].stats_of = ret.data[k].content_id

\* a page of the videos 1 and 2 joined with a complete details response
C25_Witness ==
    /\ UploadsReturned
    /\ DetailsComplete
    /\ \E k \in DOMAIN calls : IsJoin(k) /\ calls[k].ids = <<1, 2>>
    /\ \E i, j \in UploadedRows(ret.data) :
           /\ ret.data[i].content_id = 1 /\ ret.data[i].stats_of = 1
           /\ ret.data[j].content_id = 2 /\ ret.data[j].stats_of = 2

(***************************************************************************)
(* C26.  An item with non-empty live-broadcast metadata is never a Short,  *)
(* whatever its duration; a Short is an item that would otherwise be a     *)
(* Video, of a duration of at most 60 seconds.                             *)
(***************************************************************************)
C26_LiveBeforeShort ==
    Classified =>
        /\ live_details.keys # {} => video_data.Type # "Short"
        /\ video_data.Type = "Short" =>
               /\ live_details.keys = {}
               /\ \E h \in -1..MaxHours, m \in -1..MaxMinutes, s \in -1..MaxSeconds :
                      duration_iso = Iso(h, m, s) /\ SecondsOf(h, m, s) <= 60

\* a scheduled broadcast of thirty seconds stays LiveScheduled
C26_Witness ==
    /\ Classified
    /\ live_details.keys = {"scheduledStartTime"}
    /\ duration_iso = <<"P","T","3","0","S">>
    /\ video_data.Type = "Live (Scheduled)"

(***************************************************************************)
(* C27.  In the result of a fetch every item's duration and counts are     *)
(* those of the video its contentId names, and every entry of the uploads  *)
(* listing yields an item, also when a details response leaves out some    *)
(* of the requested ids.                                                   *)
(***************************************************************************)
C27_IntegrityUnderOmission ==
    (UploadsReturned /\ NoCallRaised) =>
        /\ \A k \in UploadedRows(ret.data) : ret.data[k].stats_of = ret.data[k].content_id
        /\ Cardinality(UploadedRows(ret.data)) = Len(uploads)

(***************************************************************************)
(* C28.  A reference that holds 'youtube.com', is not of the canonical-id  *)
(* shape and matches none of the four patterns resolves to no channel: no  *)
(* request is issued, and nothing is passed to the lookup chain.           *)
(***************************************************************************)
C28_UnmatchedUrl ==
    (fetches > 0 /\ channel_input \in {RefUnmatchedUrl, RefNoId}) =>
        /\ calls = <<>>
        /\ pc = "idle"
        /\ username = <<>>
        /\ ~ret.ok
        /\ errors = 1

\* youtube.com/channel/ was entered: the fetch is over, nothing was requested
C28_Witness ==
    /\ channel_input = RefNoId
    /\ Returned
    /\ calls = <<>>
    /\ errors = 1

(***************************************************************************)
(* C29.  app.py: after every uploads page, for every reported video count  *)
(* ('0' included, or 'N/A') and every number of items fetched, the         *)
(* progress value is computed without raising and lies in [0, 1].          *)
(***************************************************************************)
\* no request failed, so only the code between the requests can have raised
C29_ProgressFraction ==
    (variant = "app" /\ Returned /\ ChannelFound /\ NoCallRaised) =>
        /\ ret.ok
        /\ errors = 0

(***************************************************************************)
(* C30.  For every integer n >= 1000 the number format_number prints       *)
(* before the suffix is at least 1.0 and below 1000.0.                     *)
(***************************************************************************)
C30_MantissaBound ==
    (formatted # NotFormatted /\ num.kind = "int" /\ num.n >= 1000) =>
        /\ ~formatted.raised
        /\ \E i \in DOMAIN formatted.text : formatted.text[i] = "."
        /\ LET whole == ParseInt(SubSeq(formatted.text, 1, DotOf(formatted.text) - 1))
           IN  whole >= 1 /\ whole < 1000

=============================================================================
